---------------------------- MODULE Spec2Model ----------------------------
(***************************************************************************)
(* Wire-format layer of the TLS 1.3 handshake client: the heartbeat        *)
(* payload codec, the extension_group! encode/parse pair, the ServerHello  *)
(* decoder and the key-exchange bootstrap.                                 *)
(*                                                                         *)
(* Every decode/encode call is synchronous and pure apart from the         *)
(* transcript digest, so one behaviour is one call sequence: Init draws    *)
(* the call's input, an action applies the operation, and the operations   *)
(* that take a decoded ServerHello follow a successful read.               *)
(***************************************************************************)
EXTENDS Integers, Sequences, FiniteSets, TLC

(***************************************************************************)
(* Bounds of the input space                                               *)
(***************************************************************************)
\* longest legacy session id placed in a generated ServerHello
MaxSidLen == 2
\* longest list of freely mixed extension entries in a generated block
MaxMixed == 2
\* how many entries beyond the list capacity a generated block may hold
MaxOver == 1
\* longest tail of bytes after the type code in a generated group input
MaxTail == 2

(***************************************************************************)
(* Results and errors                                                      *)
(***************************************************************************)
NoVal == <<>>

\* crate::TlsError: a tag, and for AbortHandshake the alert level/description
TlsErr(tag) == [tag |-> tag, level |-> "-", desc |-> "-"]
AbortHandshake(level, desc) == [tag |-> "AbortHandshake", level |-> level, desc |-> desc]
\* crate::parse_buffer::ParseError
ParseErr(tag) == [tag |-> tag, level |-> "parse", desc |-> "-"]
NoErr == TlsErr("none")

\* Result<T, E> together with the cursor position the call leaves behind
Ok(val, pos) == [ok |-> TRUE, val |-> val, err |-> NoErr, pos |-> pos]
Err(err, pos) == [ok |-> FALSE, val |-> NoVal, err |-> err, pos |-> pos]

\* Option<T>
None == [some |-> FALSE]
Some(v) == [some |-> TRUE, val |-> v]

U16(n) == <<n \div 256, n % 256>>

\* F applied to the value of x, with x evaluated once
Then(x, F(_)) == CHOOSE r \in {F(y) : y \in {x}} : TRUE

RECURSIVE Repeat(_, _)
Repeat(s, n) == IF n = 0 THEN <<>> ELSE s \o Repeat(s, n - 1)

RECURSIVE Flatten(_)
Flatten(ss) == IF ss = <<>> THEN <<>> ELSE Head(ss) \o Flatten(Tail(ss))

(***************************************************************************)
(* ParseBuffer: sequential read cursor over an immutable byte span.  pos   *)
(* is the number of bytes consumed.  A read that needs more bytes than     *)
(* remain fails with ParseError::InsufficientBytes and leaves pos alone.   *)
(***************************************************************************)
Remaining(buf, pos) == Len(buf) - pos

read_u8(buf, pos) ==
    IF Remaining(buf, pos) < 1 THEN Err(ParseErr("InsufficientBytes"), pos)
    ELSE Ok(buf[pos + 1], pos + 1)

read_u16(buf, pos) ==
    IF Remaining(buf, pos) < 2 THEN Err(ParseErr("InsufficientBytes"), pos)
    ELSE Ok(buf[pos + 1] * 256 + buf[pos + 2], pos + 2)

slice(buf, pos, n) ==
    IF Remaining(buf, pos) < n THEN Err(ParseErr("InsufficientBytes"), pos)
    ELSE Ok(SubSeq(buf, pos + 1, pos + n), pos + n)

fill(buf, pos, n) == slice(buf, pos, n)

\* impl From<ParseError> for TlsError, applied by `?`
FromParseError(e) == TlsErr("DecodeError")

(***************************************************************************)
(* Heartbeat (RFC 6520)                                                    *)
(***************************************************************************)
HeartbeatValues == {"PeerAllowedToSend", "PeerNotAllowedToSend"}

\* `*self as u8`
HeartbeatCode(v) == IF v = "PeerAllowedToSend" THEN 1 ELSE 2

Heartbeat_parse(buf, pos) ==
    LET b == read_u8(buf, pos) IN
    IF ~b.ok THEN Err(b.err, b.pos)
    ELSE IF b.val = HeartbeatCode("PeerAllowedToSend") THEN Ok("PeerAllowedToSend", b.pos)
    ELSE IF b.val = HeartbeatCode("PeerAllowedToSend") THEN Ok("PeerAllowedToSend", b.pos)
    ELSE Err(ParseErr("InvalidData"), b.pos)

\* buf.push(*self as u8)
Heartbeat_encode(v, out) == Append(out, HeartbeatCode(v))

(***************************************************************************)
(* ExtensionType registry: known tags and their 2-byte wire codes          *)
(***************************************************************************)
ExtensionTypeCode ==
    [ServerName |-> 0, Heartbeat |-> 15, PreSharedKey |-> 41,
     SupportedVersions |-> 43, PostHandshakeAuth |-> 49, KeyShare |-> 51]

ExtensionTypes == DOMAIN ExtensionTypeCode
KnownCodes == {ExtensionTypeCode[t] : t \in ExtensionTypes}
TypeOfCode(c) == CHOOSE t \in ExtensionTypes : ExtensionTypeCode[t] = c

\* ExtensionType::parse: a code that is no known tag is ParseError::InvalidData
ExtensionType_parse(buf, pos) ==
    LET c == read_u16(buf, pos) IN
    IF ~c.ok THEN Err(c.err, c.pos)
    ELSE IF c.val \in KnownCodes THEN Ok(TypeOfCode(c.val), c.pos)
    ELSE Err(ParseErr("InvalidData"), c.pos)

ExtensionType_encode(t, out) == out \o U16(ExtensionTypeCode[t])

\* CryptoBuffer::with_u16_length: reserve two bytes, write the body, fill in
\* the body's length
with_u16_length(out, body) == out \o U16(Len(body)) \o body

(***************************************************************************)
(* Extension payload codecs.  Heartbeat is the codec above; a KeyShare     *)
(* payload is a group id followed by the key bytes; the remaining payloads *)
(* are opaque byte ranges.                                                 *)
(***************************************************************************)
KeyShareEntry_parse(buf, pos) ==
    LET g == read_u16(buf, pos) IN
    IF ~g.ok THEN Err(g.err, g.pos)
    ELSE Ok([group |-> g.val, opaque |-> SubSeq(buf, g.pos + 1, Len(buf))], Len(buf))

Opaque_parse(buf, pos) == Ok(SubSeq(buf, pos + 1, Len(buf)), Len(buf))

\* <$extension_data>::parse(buf)
ExtensionData_parse(t, buf, pos) ==
    CASE t = "Heartbeat" -> Heartbeat_parse(buf, pos)
      [] t = "KeyShare" -> KeyShareEntry_parse(buf, pos)
      [] OTHER -> Opaque_parse(buf, pos)

\* ext_data.encode(buf)
ExtensionData_encode(v, out) ==
    CASE v.type = "Heartbeat" -> Heartbeat_encode(v.data, out)
      [] v.type = "KeyShare" -> out \o U16(v.data.group) \o v.data.opaque
      [] OTHER -> out \o v.data

(***************************************************************************)
(* extension_group!: a group is the set of variants the enum lists         *)
(***************************************************************************)
extension_type(v) == v.type

extension_group_encode(v, out) ==
    with_u16_length(ExtensionType_encode(extension_type(v), out),
                    ExtensionData_encode(v, <<>>))

\* faulty variant: every ExtensionType::parse error becomes the generic decode error
MapExtensionTypeError_generic(e) == TlsErr("DecodeError")

\* the map_err closure applied to ExtensionType::parse's error
MapExtensionTypeError(e) ==
    IF e = ParseErr("InvalidData") THEN TlsErr("UnknownExtensionType")
    ELSE TlsErr("DecodeError")

\* faulty variant: a misplaced type is reported as the generic decode error
UnexpectedExtensionType_generic == TlsErr("DecodeError")

\* the `other =>` arm: a recognized type the group does not list
UnexpectedExtensionType == AbortHandshake("Fatal", "IllegalParameter")

extension_group_parse(group, buf, pos) ==
    LET t == ExtensionType_parse(buf, pos) IN
    IF ~t.ok THEN Err(MapExtensionTypeError(t.err), t.pos)
    ELSE IF t.val \in group THEN
        LET d == ExtensionData_parse(t.val, buf, t.pos) IN
        IF ~d.ok THEN Err(TlsErr("DecodeError"), d.pos)
        ELSE Ok([type |-> t.val, data |-> d.val], d.pos)
    ELSE Err(UnexpectedExtensionType, t.pos)

(***************************************************************************)
(* ServerHello                                                             *)
(***************************************************************************)
\* `let mut random = [0; 32]`
RandomLen == 32
\* faulty variant: a list one entry shorter
MaxExtensions_short == 16 - 1
\* `extensions: Vec<ServerExtension<'a>, 16>`
MaxExtensions == 16

ALLOWED_EXTENSIONS ==
    {"KeyShare", "PreSharedKey", "SupportedVersions", "PostHandshakeAuth"}

\* the known-suite table behind CipherSuite::of
CipherSuiteTable ==
    [c \in {4865, 4866} |->
        IF c = 4865 THEN "TlsAes128GcmSha256" ELSE "TlsAes256GcmSha384"]

CipherSuite_of(code) ==
    IF code \in DOMAIN CipherSuiteTable THEN Some(CipherSuiteTable[code]) ELSE None

\* one entry of a ServerHello extension block: type, u16 length, payload
\* decoded from exactly the bytes the length names
ServerExtension_parse(buf, pos, allowed) ==
    LET t == ExtensionType_parse(buf, pos) IN
    IF ~t.ok THEN Err(MapExtensionTypeError(t.err), t.pos)
    ELSE IF t.val \notin allowed THEN Err(UnexpectedExtensionType, t.pos)
    ELSE
        LET l == read_u16(buf, t.pos) IN
        IF ~l.ok THEN Err(TlsErr("DecodeError"), l.pos)
        ELSE
            LET r == slice(buf, l.pos, l.val) IN
            IF ~r.ok THEN Err(TlsErr("DecodeError"), r.pos)
            ELSE
                LET d == ExtensionData_parse(t.val, r.val, 0) IN
                IF ~d.ok THEN Err(TlsErr("DecodeError"), l.pos + d.pos)
                ELSE Ok([type |-> t.val, data |-> d.val], r.pos)

\* the loop of parse_vector over the block's bytes: entries are pushed in
\* received order; a push onto a full list is the capacity error
RECURSIVE ParseEntries(_, _, _, _)
ParseEntries(block, pos, allowed, acc) ==
    IF Remaining(block, pos) = 0 THEN Ok(acc, pos)
    ELSE Then(ServerExtension_parse(block, pos, allowed), LAMBDA e :
        IF ~e.ok THEN Err(e.err, e.pos)
        ELSE IF Len(acc) >= MaxExtensions THEN Err(TlsErr("CapacityExceeded"), e.pos)
        ELSE Then(Append(acc, e.val), LAMBDA a : ParseEntries(block, e.pos, allowed, a)))

\* ServerExtension::parse_vector: a u16 length, then that many bytes of entries
parse_vector(buf, pos, allowed) ==
    Then(read_u16(buf, pos), LAMBDA l :
    IF ~l.ok THEN Err(TlsErr("DecodeError"), l.pos)
    ELSE Then(slice(buf, l.pos, l.val), LAMBDA b :
        IF ~b.ok THEN Err(TlsErr("DecodeError"), b.pos)
        ELSE Then(ParseEntries(b.val, 0, allowed, <<>>), LAMBDA r :
            IF ~r.ok THEN Err(r.err, l.pos + r.pos)
            ELSE Ok(r.val, b.pos))))

\* the steps of ServerHello::parse, one per field
parse_version(buf, pos) ==
    LET r == read_u16(buf, pos) IN
    IF r.ok THEN r ELSE Err(TlsErr("InvalidHandshake"), r.pos)

parse_random(buf, pos) ==
    LET r == fill(buf, pos, RandomLen) IN
    IF r.ok THEN r ELSE Err(FromParseError(r.err), r.pos)

\* faulty variant: the slice's error goes through `?` instead of map_err
parse_session_id_unmapped(buf, pos) ==
    LET l == read_u8(buf, pos) IN
    IF ~l.ok THEN Err(TlsErr("InvalidSessionIdLength"), l.pos)
    ELSE
        LET s == slice(buf, l.pos, l.val) IN
        IF s.ok THEN s ELSE Err(FromParseError(s.err), s.pos)

parse_session_id(buf, pos) ==
    LET l == read_u8(buf, pos) IN
    IF ~l.ok THEN Err(TlsErr("InvalidSessionIdLength"), l.pos)
    ELSE
        LET s == slice(buf, l.pos, l.val) IN
        IF s.ok THEN s ELSE Err(TlsErr("InvalidSessionIdLength"), s.pos)

\* faulty variant: an unknown code falls back to a default suite
parse_cipher_suite_default(buf, pos) ==
    LET c == read_u16(buf, pos) IN
    IF ~c.ok THEN Err(TlsErr("InvalidCipherSuite"), c.pos)
    ELSE
        LET s == CipherSuite_of(c.val) IN
        IF s.some THEN Ok(s.val, c.pos) ELSE Ok("TlsAes128GcmSha256", c.pos)

parse_cipher_suite(buf, pos) ==
    LET c == read_u16(buf, pos) IN
    IF ~c.ok THEN Err(TlsErr("InvalidCipherSuite"), c.pos)
    ELSE
        LET s == CipherSuite_of(c.val) IN
        IF s.some THEN Ok(s.val, c.pos) ELSE Err(TlsErr("InvalidCipherSuite"), c.pos)

\* faulty variant: the compression byte is optional
parse_compression_optional(buf, pos) ==
    LET r == read_u8(buf, pos) IN
    IF r.ok THEN r ELSE Ok(0, r.pos)

parse_compression(buf, pos) ==
    LET r == read_u8(buf, pos) IN
    IF r.ok THEN r ELSE Err(FromParseError(r.err), r.pos)

parse_extensions(buf, pos) == parse_vector(buf, pos, ALLOWED_EXTENSIONS)

FieldOrder ==
    <<"version", "random", "session_id", "cipher_suite", "compression", "extensions">>

NoHello == [present |-> FALSE]

\* what ServerHello::parse returns, with the cursor position it leaves and
\* the fields it went through (the last one is the one that failed, if any)
ParseResult(ok, hello, err, pos, n) ==
    [ok |-> ok, hello |-> hello, err |-> err, pos |-> pos,
     steps |-> SubSeq(FieldOrder, 1, n)]

ServerHello_parse(buf) ==
    Then(parse_version(buf, 0), LAMBDA v :
    IF ~v.ok THEN ParseResult(FALSE, NoHello, v.err, v.pos, 1) ELSE
    Then(parse_random(buf, v.pos), LAMBDA r :
    IF ~r.ok THEN ParseResult(FALSE, NoHello, r.err, r.pos, 2) ELSE
    Then(parse_session_id(buf, r.pos), LAMBDA s :
    IF ~s.ok THEN ParseResult(FALSE, NoHello, s.err, s.pos, 3) ELSE
    Then(parse_cipher_suite(buf, s.pos), LAMBDA c :
    IF ~c.ok THEN ParseResult(FALSE, NoHello, c.err, c.pos, 4) ELSE
    Then(parse_compression(buf, c.pos), LAMBDA m :
    IF ~m.ok THEN ParseResult(FALSE, NoHello, m.err, m.pos, 5) ELSE
    Then(parse_extensions(buf, m.pos), LAMBDA e :
    IF ~e.ok THEN ParseResult(FALSE, NoHello, e.err, e.pos, 6) ELSE
    ParseResult(TRUE,
                [present |-> TRUE, random |-> r.val,
                 legacy_session_id_echo |-> s.val,
                 cipher_suite |-> c.val, extensions |-> e.val],
                NoErr, e.pos, 6)))))))

\* faulty variant: the digest is fed only when the parse succeeds
ServerHello_read_after(buf, d) ==
    Then(ServerHello_parse(buf), LAMBDA p :
        [digest |-> IF p.ok THEN Append(d, buf) ELSE d,
         events |-> <<"parse", "digest.update">>, parsed |-> p])

\* ServerHello::read: the digest takes the whole input, then the parse runs
ServerHello_read(buf, d) ==
    [digest |-> Append(d, buf), events |-> <<"digest.update", "parse">>,
     parsed |-> ServerHello_parse(buf)]

(***************************************************************************)
(* Key exchange bootstrap                                                  *)
(***************************************************************************)
\* PublicKey::from_sec1_bytes(..).ok(): the bytes are an uncompressed point
from_sec1_bytes(opaque) ==
    IF Len(opaque) > 0 /\ opaque[1] = 4 THEN Some(opaque) ELSE None

RECURSIVE FindKeyShare(_)
FindKeyShare(exts) ==
    IF exts = <<>> THEN None
    ELSE IF Head(exts).type = "KeyShare" THEN Some(Head(exts).data)
    ELSE FindKeyShare(Tail(exts))

\* faulty variant: the first extension is taken whatever its variant
key_share_first(hello) ==
    IF hello.extensions = <<>> THEN None
    ELSE IF Head(hello.extensions).type = "KeyShare" THEN Some(Head(hello.extensions).data)
    ELSE Some([group |-> 0, opaque |-> Head(hello.extensions).data])

key_share(hello) == FindKeyShare(hello.extensions)

\* each result carries the number of Diffie-Hellman operations and of
\* CryptoEngine::new calls the operation made
KxResult(val, dh, engines) == [val |-> val, dh |-> dh, engines |-> engines]

calculate_shared_secret(hello, secret) ==
    LET ks == key_share(hello) IN
    IF ~ks.some THEN KxResult(None, 0, 0) ELSE
    LET pk == from_sec1_bytes(ks.val.opaque) IN
    IF ~pk.some THEN KxResult(None, 0, 0) ELSE
    KxResult(Some([secret |-> secret, peer |-> pk.val]), 1, 0)

initialize_crypto_engine(hello, secret) ==
    LET ks == key_share(hello) IN
    IF ~ks.some THEN KxResult(None, 0, 0) ELSE
    LET pk == from_sec1_bytes(ks.val.opaque) IN
    IF ~pk.some THEN KxResult(None, 0, 0) ELSE
    KxResult(Some([group |-> ks.val.group,
                   shared |-> [secret |-> secret, peer |-> pk.val]]), 1, 1)

(***************************************************************************)
(* Inputs                                                                  *)
(***************************************************************************)
SeqsUpTo(S, n) == UNION {[1..k -> S] : k \in 0..n}
Prefixes(b, from) == {SubSeq(b, 1, k) : k \in from..Len(b)}

HeartbeatInputs ==
    {<<>>} \cup {<<b>> : b \in 0..255} \cup {<<b, 9>> : b \in 0..3}

\* instantiations of extension_group!
Groups ==
    {{"Heartbeat"}, {"Heartbeat", "KeyShare", "SupportedVersions"}, ALLOWED_EXTENSIONS}

UnknownCodes == {2570, 65535}

GroupInputs ==
    {<<>>, <<0>>, <<255>>}
    \cup {U16(c) \o t : c \in KnownCodes \cup UnknownCodes, t \in SeqsUpTo({0, 1, 2}, MaxTail)}

\* the values of a group's variants
VariantValues(t) ==
    CASE t = "Heartbeat" -> HeartbeatValues
      [] t = "KeyShare" ->
            {[group |-> 29, opaque |-> <<>>], [group |-> 23, opaque |-> <<4, 9>>]}
      [] OTHER -> {<<>>, <<3, 4>>}

GroupValues(g) == UNION {{[type |-> t, data |-> d] : d \in VariantValues(t)} : t \in g}

Entry(code, payload) == U16(code) \o U16(Len(payload)) \o payload

EntryKinds ==
    {Entry(51, <<0, 29>>), Entry(51, <<0, 23, 4, 9>>), Entry(51, <<0>>),
     Entry(43, <<3, 4>>), Entry(49, <<>>), Entry(0, <<>>), Entry(65535, <<>>)}

\* an extension block whose length field names all of the entries' bytes but
\* the last `cut`
Block(entries, cut) ==
    LET flat == Flatten(entries) IN U16(Len(flat) - cut) \o flat

Header(sidLen, sid, suite) ==
    U16(771) \o Repeat(<<5>>, RandomLen) \o <<sidLen>> \o sid \o U16(suite) \o <<0>>

HeaderLen == RandomLen + 6

\* ServerHellos cut anywhere, over session ids and cipher-suite codes
HeaderInputs ==
    UNION {UNION {Prefixes(Header(l, Repeat(<<7>>, n), c)
                             \o Block(<<Entry(43, <<3, 4>>)>>, 0), 0) :
                    l \in {n, 255}, c \in {4865, 4866, 0, 4999}} :
             n \in 0..MaxSidLen}

\* ServerHellos over mixed extension blocks, cut anywhere inside the block
BlockInputs ==
    UNION {Prefixes(Header(0, <<>>, 4865) \o Block(es, cut), HeaderLen) :
             es \in SeqsUpTo(EntryKinds, MaxMixed) \ {<<>>}, cut \in {0, 1}}
    \cup Prefixes(Header(0, <<>>, 4865) \o Block(<<>>, 0), HeaderLen)

\* n legal entries, the i-th carrying payload <<3, i>>
LegalEntries(n) == [i \in 1..n |-> Entry(43, <<3, i>>)]

\* ServerHellos whose block holds about as many entries as the list can keep
CapacityInputs ==
    {Header(0, <<>>, 4866) \o Block(LegalEntries(n), 0) :
        n \in (MaxExtensions - 2)..(MaxExtensions + MaxOver)}

ServerHelloInputs == HeaderInputs \cup BlockInputs \cup CapacityInputs

\* the transcript before the ServerHello arrives: nothing, or a ClientHello
DigestStarts == {<<>>, << <<1, 0>> >>}

Secrets == {"secret"}

(***************************************************************************)
(* State                                                                   *)
(***************************************************************************)
VARIABLES
    pc,        \* the call about to be made, then "encoded", "decoded" or "done"
    op,        \* the last operation applied
    buf,       \* the bytes given to a parse
    group,     \* the extension group in use
    val,       \* the value given to an encode
    out,       \* the CryptoBuffer written by an encode
    res,       \* the result of the last parse
    digest0,   \* the transcript digest's updates before the call
    digest,    \* the transcript digest's updates, in order
    events,    \* the order in which read touched the digest and the parser
    hello,     \* the decoded ServerHello
    secret,    \* whether the ephemeral secret is still owned by the caller
    kx         \* the result of the last key-exchange operation

vars == <<pc, op, buf, group, val, out, res, digest0, digest, events, hello, secret, kx>>

NoRes == Err(NoErr, 0)
NoKx == KxResult(None, 0, 0)

Start(call, b, g, v, d) ==
    /\ pc = call /\ op = "none"
    /\ buf = b /\ group = g /\ val = v /\ out = <<>>
    /\ res = NoRes
    /\ digest0 = d /\ digest = d /\ events = <<>>
    /\ hello = NoHello /\ secret = TRUE /\ kx = NoKx

Init ==
    \/ \E b \in HeartbeatInputs : Start("Heartbeat::parse", b, {}, NoVal, <<>>)
    \/ \E v \in HeartbeatValues : Start("Heartbeat::encode", <<>>, {}, v, <<>>)
    \/ \E g \in Groups : \E b \in GroupInputs : Start("group::parse", b, g, NoVal, <<>>)
    \/ \E g \in Groups : \E v \in GroupValues(g) : Start("group::encode", <<>>, g, v, <<>>)
    \/ \E b \in ServerHelloInputs : \E d \in DigestStarts :
          Start("ServerHello::read", b, {}, NoVal, d)

(***************************************************************************)
(* Operations                                                              *)
(***************************************************************************)
HeartbeatParse ==
    /\ pc = "Heartbeat::parse"
    /\ res' = Heartbeat_parse(buf, 0)
    /\ pc' = "done" /\ op' = "Heartbeat::parse"
    /\ UNCHANGED <<buf, group, val, out, digest0, digest, events, hello, secret, kx>>

HeartbeatEncode ==
    /\ pc = "Heartbeat::encode"
    /\ out' = Heartbeat_encode(val, out)
    /\ pc' = "done" /\ op' = "Heartbeat::encode"
    /\ UNCHANGED <<buf, group, val, res, digest0, digest, events, hello, secret, kx>>

GroupParse ==
    /\ pc = "group::parse"
    /\ res' = extension_group_parse(group, buf, 0)
    /\ pc' = "done" /\ op' = "group::parse"
    /\ UNCHANGED <<buf, group, val, out, digest0, digest, events, hello, secret, kx>>

GroupEncode ==
    /\ pc = "group::encode"
    /\ out' = extension_group_encode(val, out)
    /\ pc' = "encoded" /\ op' = "group::encode"
    /\ UNCHANGED <<buf, group, val, res, digest0, digest, events, hello, secret, kx>>

\* the group parses the bytes its own encode wrote
GroupParseEncoded ==
    /\ pc = "encoded"
    /\ buf' = out
    /\ res' = extension_group_parse(group, out, 0)
    /\ pc' = "done" /\ op' = "group::parse(encoded)"
    /\ UNCHANGED <<group, val, out, digest0, digest, events, hello, secret, kx>>

Read ==
    /\ pc = "ServerHello::read"
    /\ \E r \in {ServerHello_read(buf, digest)} :
        /\ digest' = r.digest
        /\ events' = r.events
        /\ res' = r.parsed
        /\ hello' = r.parsed.hello
        /\ pc' = IF r.parsed.ok THEN "decoded" ELSE "done"
    /\ op' = "ServerHello::read"
    /\ UNCHANGED <<buf, group, val, out, digest0, secret, kx>>

KeyShare ==
    /\ pc = "decoded"
    /\ kx' = KxResult(key_share(hello), 0, 0)
    /\ op' = "key_share"
    /\ UNCHANGED <<pc, buf, group, val, out, res, digest0, digest, events, hello, secret>>

\* borrows the ephemeral secret
CalculateSharedSecret ==
    /\ pc = "decoded" /\ secret
    /\ \E s \in Secrets : kx' = calculate_shared_secret(hello, s)
    /\ op' = "calculate_shared_secret"
    /\ UNCHANGED <<pc, buf, group, val, out, res, digest0, digest, events, hello, secret>>

\* takes the ephemeral secret: it is gone whatever the outcome
InitializeCryptoEngine ==
    /\ pc = "decoded" /\ secret
    /\ \E s \in Secrets : kx' = initialize_crypto_engine(hello, s)
    /\ secret' = FALSE
    /\ op' = "initialize_crypto_engine"
    /\ UNCHANGED <<pc, buf, group, val, out, res, digest0, digest, events, hello>>

Next ==
    \/ HeartbeatParse
    \/ HeartbeatEncode
    \/ GroupParse
    \/ GroupEncode
    \/ GroupParseEncoded
    \/ Read
    \/ KeyShare
    \/ CalculateSharedSecret
    \/ InitializeCryptoEngine

Spec == Init /\ [][Next]_vars

(***************************************************************************)
(* Reading the input independently of the decoder                          *)
(***************************************************************************)
AfterRead ==
    op \in {"ServerHello::read", "key_share", "calculate_shared_secret",
            "initialize_crypto_engine"}

U16At(b, i) == b[i] * 256 + b[i + 1]

\* offsets (1-based) of the ServerHello fields in the input
SidLenAt == RandomLen + 3
SuiteAt(b) == SidLenAt + 1 + b[SidLenAt]
BlockAt(b) == SuiteAt(b) + 3

HasSessionId(b) == Len(b) >= SidLenAt /\ Len(b) >= SidLenAt + b[SidLenAt]
HasSuite(b) == HasSessionId(b) /\ Len(b) >= SuiteAt(b) + 1
HasCompression(b) == HasSuite(b) /\ Len(b) >= SuiteAt(b) + 2
HasBlock(b) ==
    /\ HasCompression(b)
    /\ Len(b) >= BlockAt(b) + 1
    /\ Len(b) >= BlockAt(b) + 1 + U16At(b, BlockAt(b))

BlockBytes(b) == SubSeq(b, BlockAt(b) + 2, BlockAt(b) + 1 + U16At(b, BlockAt(b)))

\* the type/length/payload frames a byte range holds, and where they end
RECURSIVE Frames(_, _, _)
Frames(bytes, pos, acc) ==
    IF Len(bytes) - pos < 4 THEN [frames |-> acc, end |-> pos]
    ELSE Then(U16At(bytes, pos + 3), LAMBDA n :
        IF Len(bytes) - pos < 4 + n THEN [frames |-> acc, end |-> pos]
        ELSE Then(Append(acc, [code |-> U16At(bytes, pos + 1),
                               payload |-> SubSeq(bytes, pos + 5, pos + 4 + n)]),
                  LAMBDA a : Frames(bytes, pos + 4 + n, a)))

AllowedCodes == {ExtensionTypeCode[t] : t \in ALLOWED_EXTENSIONS}

\* a frame the ServerHello context accepts
LegalFrame(f) ==
    /\ f.code \in AllowedCodes
    /\ f.code = ExtensionTypeCode["KeyShare"] => Len(f.payload) >= 2

\* a frame of a type that is known but not a ServerHello extension
ForeignFrame(f) == f.code \in KnownCodes \ AllowedCodes

\* the decoded extension e is what frame f carried
Carries(e, f) ==
    /\ ExtensionTypeCode[e.type] = f.code
    /\ ExtensionData_encode(e, <<>>) = f.payload

HasKeyShare(h) == \E i \in 1..Len(h.extensions) : h.extensions[i].type = "KeyShare"

Abort == AbortHandshake("Fatal", "IllegalParameter")

(***************************************************************************)
(* Claims                                                                  *)
(***************************************************************************)

\* C1: a group that decodes a type code of a known ExtensionType it does not
\* list fails with AbortHandshake(Fatal, IllegalParameter): in the group's
\* parse, and in a ServerHello whose block reaches such an entry after legal
\* ones.
C1_IllegalParameter ==
    /\ (op = "group::parse" /\ Len(buf) >= 2 /\ U16At(buf, 1) \in KnownCodes
            /\ TypeOfCode(U16At(buf, 1)) \notin group)
        => (~res.ok /\ res.err = Abort)
    /\ (AfterRead /\ HasBlock(buf) /\ U16At(buf, SuiteAt(buf)) \in DOMAIN CipherSuiteTable)
        => \A fr \in {Frames(BlockBytes(buf), 0, <<>>).frames} :
             \A i \in 1..Len(fr) :
                (i <= 16 /\ ForeignFrame(fr[i]) /\ \A j \in 1..(i - 1) : LegalFrame(fr[j]))
                    => (~res.ok /\ res.err = Abort /\ hello = NoHello)

C1_Witness ==
    /\ op = "group::parse" /\ group = ALLOWED_EXTENSIONS
    /\ Len(buf) >= 2 /\ U16At(buf, 1) = ExtensionTypeCode["ServerName"]
    /\ res.err = Abort

\* C2: a type code that is no known ExtensionType fails with
\* UnknownExtensionType, and nothing else does: an unreadable type code and a
\* malformed payload give DecodeError, a misplaced known type the abort.
C2_UnknownExtensionType ==
    op = "group::parse" =>
        /\ (Len(buf) >= 2 /\ U16At(buf, 1) \notin KnownCodes)
            => (~res.ok /\ res.err = TlsErr("UnknownExtensionType"))
        /\ Len(buf) < 2 => (~res.ok /\ res.err = TlsErr("DecodeError"))
        /\ res.err = TlsErr("UnknownExtensionType")
            => (Len(buf) >= 2 /\ U16At(buf, 1) \notin KnownCodes)
        /\ (Len(buf) >= 2 /\ U16At(buf, 1) \in KnownCodes
                /\ TypeOfCode(U16At(buf, 1)) \in group /\ ~res.ok)
            => res.err = TlsErr("DecodeError")

C2_Witness ==
    /\ op = "group::parse" /\ Len(buf) >= 2 /\ U16At(buf, 1) \notin KnownCodes
    /\ res.err = TlsErr("UnknownExtensionType")

\* C3: read feeds the digest exactly one update, the whole input, before the
\* parser runs, whether the parse succeeds or fails.
C3_TranscriptOnce ==
    /\ pc = "ServerHello::read" => digest = digest0
    /\ AfterRead =>
        /\ digest = Append(digest0, buf)
        /\ events = <<"digest.update", "parse">>

C3_Witness ==
    /\ op = "ServerHello::read" /\ ~res.ok /\ buf # <<>> /\ digest0 # <<>>
    /\ digest = Append(digest0, buf)

\* C4: Heartbeat::parse maps 1 to PeerAllowedToSend, 2 to
\* PeerNotAllowedToSend, any other byte to the invalid-data error, and an
\* empty cursor to the cursor's read error.
C4_HeartbeatMapping ==
    op = "Heartbeat::parse" =>
        IF buf = <<>> THEN ~res.ok /\ res.err = ParseErr("InsufficientBytes")
        ELSE IF buf[1] = 1 THEN res.ok /\ res.val = "PeerAllowedToSend"
        ELSE IF buf[1] = 2 THEN res.ok /\ res.val = "PeerNotAllowedToSend"
        ELSE ~res.ok /\ res.err = ParseErr("InvalidData")

\* C5: parsing what encode wrote for a variant returns that variant and
\* consumes exactly the bytes written.
C5_RoundTrip ==
    op = "group::parse(encoded)" =>
        /\ res.ok
        /\ res.val = val
        /\ res.pos = Len(out)

\* C6: a session-id length that cannot be read, or that names more bytes than
\* remain, fails with InvalidSessionIdLength; no ServerHello is produced and
\* the cursor never passes the end of the input.
C6_SessionIdLength ==
    AfterRead =>
        /\ res.pos <= Len(buf)
        /\ (Len(buf) >= RandomLen + 2 /\ ~HasSessionId(buf))
            => (~res.ok /\ res.err = TlsErr("InvalidSessionIdLength") /\ hello = NoHello)

C6_Witness ==
    /\ op = "ServerHello::read" /\ Len(buf) >= SidLenAt
    /\ buf[SidLenAt] > Len(buf) - SidLenAt
    /\ res.err = TlsErr("InvalidSessionIdLength") /\ hello = NoHello

\* C7: after version, random and session id, a cipher-suite code outside the
\* known-suite table fails with InvalidCipherSuite, and a decoded ServerHello
\* carries the suite its code maps to.
C7_CipherSuite ==
    (AfterRead /\ HasSuite(buf)) =>
        /\ U16At(buf, SuiteAt(buf)) \notin DOMAIN CipherSuiteTable
            => (~res.ok /\ res.err = TlsErr("InvalidCipherSuite"))
        /\ res.ok => /\ U16At(buf, SuiteAt(buf)) \in DOMAIN CipherSuiteTable
                     /\ hello.cipher_suite = CipherSuiteTable[U16At(buf, SuiteAt(buf))]

C7_Witness ==
    /\ op = "ServerHello::read" /\ res.ok
    /\ U16At(buf, SuiteAt(buf)) = 4866
    /\ hello.cipher_suite = "TlsAes256GcmSha384"

C9_NoKeyShare ==
    (op \in {"key_share", "calculate_shared_secret", "initialize_crypto_engine"}
        /\ ~HasKeyShare(hello))
        => (kx.val = None /\ kx.dh = 0 /\ kx.engines = 0)

C9_Witness ==
    /\ op = "initialize_crypto_engine" /\ ~HasKeyShare(hello)
    /\ Len(hello.extensions) > 0
    /\ kx = KxResult(None, 0, 0)

\* the field at which the decode of b stops, read off the input alone
FailingField(b) ==
    IF Len(b) < 2 THEN "version"
    ELSE IF Len(b) < RandomLen + 2 THEN "random"
    ELSE IF ~HasSessionId(b) THEN "session_id"
    ELSE IF ~HasSuite(b) \/ U16At(b, SuiteAt(b)) \notin DOMAIN CipherSuiteTable
        THEN "cipher_suite"
    ELSE IF ~HasCompression(b) THEN "compression"
    ELSE "extensions"

\* the error each of the first four fields fails with
FieldError(f) ==
    CASE f = "version" -> TlsErr("InvalidHandshake")
      [] f = "random" -> TlsErr("DecodeError")
      [] f = "session_id" -> TlsErr("InvalidSessionIdLength")
      [] f = "cipher_suite" -> TlsErr("InvalidCipherSuite")

\* C10 as stated: a failed decode returns the error of its earliest failing
\* field, and a failure past the cipher suite is the extension group's.
C10_EarliestError ==
    (AfterRead /\ ~res.ok) =>
        /\ hello = NoHello
        /\ res.steps = SubSeq(FieldOrder, 1, Len(res.steps))
        /\ IF FailingField(buf) \in {"version", "random", "session_id", "cipher_suite"}
           THEN /\ res.steps[Len(res.steps)] = FailingField(buf)
                /\ res.err = FieldError(FailingField(buf))
           ELSE /\ res.steps[Len(res.steps)] = "extensions"
                /\ res.err = parse_vector(buf, BlockAt(buf) - 1, ALLOWED_EXTENSIONS).err

\* C10, amended: as above, and a compression byte that cannot be read fails
\* with the cursor's error converted by `?`, before the extension group runs.
C10_EarliestErrorAmended ==
    /\ AfterRead => res.pos <= Len(buf)
    /\ (AfterRead /\ res.ok) => (res.steps = FieldOrder /\ hello.present)
    /\ (AfterRead /\ ~res.ok) =>
        /\ hello = NoHello
        /\ res.steps = SubSeq(FieldOrder, 1, Len(res.steps))
        /\ res.steps[Len(res.steps)] = FailingField(buf)
        /\ IF FailingField(buf) \in {"version", "random", "session_id", "cipher_suite"}
           THEN res.err = FieldError(FailingField(buf))
           ELSE IF FailingField(buf) = "compression"
           THEN res.err = FromParseError(ParseErr("InsufficientBytes"))
           ELSE res.err = parse_vector(buf, BlockAt(buf) - 1, ALLOWED_EXTENSIONS).err

C10_Witness ==
    /\ op = "ServerHello::read" /\ ~res.ok
    /\ FailingField(buf) = "compression"
    /\ res.steps = SubSeq(FieldOrder, 1, 5)
    /\ res.err = TlsErr("DecodeError")

=============================================================================
